---- MODULE Spec2Model ----
(***************************************************************************)
(* Bibed: the multi-file store (BibedFileStore), the flattened data store  *)
(* (BibedDataStore) and the per-file database (BibedDatabase), with the    *)
(* global re-entrant write lock, the GLib idle queue of the primary thread *)
(* and the pyinotify notifier thread.                                      *)
(***************************************************************************)
EXTENDS Integers, Sequences, FiniteSets, TLC

VARIABLES
    files,        \* BibedFileStore rows: the open databases, in load order
    data_store,   \* BibedDataStore rows: [gid, filename, key]
    disk,         \* path -> file content (the serialized entry sequence)
    wdd,          \* paths with a registered inotify watch
    events,       \* IN_MODIFY kernel events not yet handled by the notifier
    lock,         \* file_write_lock (RLock): [owner, count]
    idle,         \* GLib idle queue of the primary thread
    num_user,     \* cached number of user files
    num_system,   \* cached number of system files
    writing,      \* Database.write() in progress: [path, old, new] or NoWrite
    burst_writes, \* writes done by save_trigger_callback since a save was
                  \* last requested with none pending: 0, 1, 2 (or more)
    edited_entry, \* the BibedEntry the user works on: its bib_dict, its
                  \* keyword list and its verbb dictionary
    edited_database \* one BibedDatabase: its ordered entries (bibdb.entries)
                  \* and its key index (entries)

store_vars == <<files, data_store, disk, wdd, events, lock, idle,
                num_user, num_system, writing, burst_writes>>

vars == <<files, data_store, disk, wdd, events, lock, idle,
          num_user, num_system, writing, burst_writes, edited_entry,
          edited_database>>

object_vars == <<edited_entry, edited_database>>

----------------------------------------------------------------------------
(* Bounds of the model.                                                    *)

MaxEntries == 2     \* entries held by one database
MaxIds     == 2     \* aliases kept in one entry's ids field
MaxIdle    == 2     \* callbacks waiting in the idle queue
MaxLock    == 3     \* recursion depth of the RLock
MaxBatch   == 2     \* entries given to one trash_entries / untrash_entries
MaxSystem  == 4     \* value the num_system counter is followed up to
MaxDrift   == 2     \* user files counted out of num_user while still open

----------------------------------------------------------------------------
(* Program constants.                                                      *)

USER      == "USER"         \* FileTypes.USER
TRASH     == "TRASH"        \* FileTypes.TRASH
QUEUE     == "QUEUE"        \* FileTypes.QUEUE
IMPORTED  == "IMPORTED"     \* FileTypes.IMPORTED
TRANSIENT == "TRANSIENT"    \* FileTypes.TRANSIENT

SYSTEM    == "SYSTEM"       \* FileTypes.SYSTEM, the mask of the three above

\* filetype & FileTypes.SYSTEM: the mask 0x00ff000 covers the bits of TRASH,
\* QUEUE and IMPORTED, and also the bit 0x0080000 of TRANSIENT.
IsSystem(filetype) == filetype \in {TRASH, QUEUE, IMPORTED, TRANSIENT}

BIBED_SYSTEM_IMPORTED_NAME == "imported.bib"
BIBED_SYSTEM_QUEUE_NAME    == "queue.bib"
BIBED_SYSTEM_TRASH_NAME    == "trash.bib"

\* The (filename, filetype) pairs of load_system_files, in its order.
SystemFiles == << <<BIBED_SYSTEM_IMPORTED_NAME, IMPORTED>>,
                  <<BIBED_SYSTEM_QUEUE_NAME, QUEUE>>,
                  <<BIBED_SYSTEM_TRASH_NAME, TRASH>> >>

UserPaths == {"a.bib", "b.bib"}
Paths     == UserPaths \cup {SystemFiles[i][1] : i \in DOMAIN SystemFiles}
Keys      == {"k1", "k2"}
MoreKeys  == Keys \cup {"k3"}

MAIN     == "main"          \* the primary (GUI) thread
NOTIFIER == "notifier"      \* the pyinotify.ThreadedNotifier thread
NOBODY   == "none"

NoWrite == [path |-> "", old |-> <<>>, new |-> <<>>]

----------------------------------------------------------------------------
(* Entries.                                                                *)

\* A parsed bibtexparser entry: its ID, its ids aliases and the trashedFrom
\* part of its verbb side channel ("" when not trashed).
NewEntry(key) == [ID |-> key, ids |-> <<>>, trashedFrom |-> ""]

\* BibedEntry.is_trashed
is_trashed(entry) == entry.trashedFrom # ""

\* BibedEntry.trashed_informations: trashedFrom and trashedDate are set and
\* deleted together, the model keeps the first.
trashed_informations(entry) == entry.trashedFrom

\* set_trashed that forgets to record where the entry comes from.
set_trashed_unmarked(entry, filename, trashed) == entry

\* BibedEntry.set_trashed(is_trashed) of an entry of the database filename.
set_trashed(entry, filename, trashed) ==
    [entry EXCEPT !.trashedFrom = IF trashed THEN filename ELSE ""]

\* entry.get_field('ids', '').split(','): the ids setter joins the aliases
\* with ', ' and this split does not strip, so every alias but the first
\* keeps a leading blank.  A token is <<leading blank, alias>>.
SplitIdsField(entry) ==
    [i \in DOMAIN entry.ids |->
        <<IF i = 1 THEN "" ELSE " ", entry.ids[i]>>]

\* The test of has_bib_key on one entry.
EntryAnswersToKey(entry, key) ==
    \/ key = entry.ID
    \/ \E i \in DOMAIN entry.ids : SplitIdsField(entry)[i] = <<"", key>>

----------------------------------------------------------------------------
(* Sequence helpers.                                                       *)

RemoveAt_nothing(s, i) == s

RemoveAt(s, i) == SubSeq(s, 1, i - 1) \o SubSeq(s, i + 1, Len(s))

\* Index of the first element of s satisfying Test, 0 if none.
FirstIndex(s, Test(_)) ==
    IF \E i \in DOMAIN s : Test(s[i])
    THEN CHOOSE i \in DOMAIN s :
            /\ Test(s[i])
            /\ \A j \in 1..(i - 1) : ~Test(s[j])
    ELSE 0

\* Index of the last element of s satisfying Test, 0 if none.
LastIndex(s, Test(_)) ==
    IF \E i \in DOMAIN s : Test(s[i])
    THEN CHOOSE i \in DOMAIN s :
            /\ Test(s[i])
            /\ \A j \in (i + 1)..Len(s) : ~Test(s[j])
    ELSE 0

----------------------------------------------------------------------------
(* BibedDatabase.                                                          *)

\* A file the parser cannot read: parser.parse_file(bibfile) raises on it.
MalformedContent == <<[ID |-> "@", ids |-> <<>>, trashedFrom |-> ""]>>

\* A parser that reads every file.
Parsable_anything(content) == TRUE

\* parser.parse_file(bibfile) returns.
Parsable(content) == content # MalformedContent

\* BibedDatabase.__init__: parse the file into the ordered entry list.
ParseFile(content) == content

\* writer.write(self.bibdb): the full in-memory entry sequence.
Serialize(entries) == entries

Database(filename, filetype, entries) ==
    [filename |-> filename, filetype |-> filetype, entries |-> entries]

\* The file system: disk maps each existing path to its content.
exists(d, p) == p \in DOMAIN d

\* open(p, 'w') ... write ... close: the file is created when missing.
PutFile(d, p, content) ==
    [q \in DOMAIN d \cup {p} |-> IF q = p THEN content ELSE d[q]]

\* The file is removed.
RemoveFile(d, p) == [q \in DOMAIN d \ {p} |-> d[q]]

----------------------------------------------------------------------------
(* BibedFileStore queries.                                                 *)

\* A store that knows no filename.
has_nothing(fs, filename) == FALSE

\* BibedFileStore.has
has(fs, filename) == \E i \in DOMAIN fs : fs[i].filename = filename

\* Position in the store of the database for a filename (0: none).
IndexOfFilename(fs, filename) ==
    LET Test(db) == db.filename = filename IN FirstIndex(fs, Test)

\* Position in the store of the first database of a filetype (0: none).
IndexOfFiletype(fs, filetype) ==
    LET Test(db) == db.filetype = filetype IN FirstIndex(fs, Test)

\* BibedFileStore.has_bib_key: the filename of the first database holding
\* the key as a key or as an alias, "" for None.
has_bib_key(fs, key) ==
    LET Test(db) == \E i \in DOMAIN db.entries :
                        EntryAnswersToKey(db.entries[i], key)
        n == FirstIndex(fs, Test)
    IN  IF n = 0 THEN "" ELSE fs[n].filename

\* The result of a lookup: the entry found, or the exception raised.
NoEntry == [ID |-> "", ids |-> <<>>, trashedFrom |-> ""]

Found(entry)   == [raised |-> "", entry |-> entry]
Raising(error) == [raised |-> error, entry |-> NoEntry]

\* BibedDatabase.get_entry_by_key: self.entries[key], where the key index
\* maps a key to the entry registered last; KeyError when absent.
DatabaseGetEntryByKey(db, key) ==
    LET Test(entry) == entry.ID = key
        j == LastIndex(db.entries, Test)
    IN  IF j = 0 THEN Raising("KeyError") ELSE Found(db.entries[j])

\* BibedFileStore.get_entry_by_key(key, filename), filename "" for None.
\* Without a filename the loop over the databases throws away what it
\* finds and the function always ends on its raise.
get_entry_by_key(fs, key, filename) ==
    IF filename = ""
    THEN Raising("BibKeyNotFoundError")
    ELSE IF ~has(fs, filename)
    THEN Raising("BibKeyNotFoundError")
    ELSE DatabaseGetEntryByKey(fs[IndexOfFilename(fs, filename)], key)

----------------------------------------------------------------------------
(* The RLock.                                                              *)

\* RLock.acquire(blocking=False) by a thread: succeeds when the lock is free
\* or already owned by that same thread (re-entrant).
CanAcquire(l, thread) == l.owner \in {NOBODY, thread}

Acquire(l, thread) ==
    IF CanAcquire(l, thread)
    THEN [owner |-> thread, count |-> l.count + 1]
    ELSE l

\* RLock.release() by a thread; a release by a thread that does not own the
\* lock raises RuntimeError and changes nothing.
CanRelease(l, thread) == l.owner = thread /\ l.count > 0

Release(l, thread) ==
    IF CanRelease(l, thread)
    THEN IF l.count = 1
         THEN [owner |-> NOBODY, count |-> 0]
         ELSE [owner |-> thread, count |-> l.count - 1]
    ELSE l

----------------------------------------------------------------------------
(* BibedDataStore.                                                         *)

\* BibedDataStore.do_recompute_global_ids
do_recompute_global_ids(rows) ==
    [i \in DOMAIN rows |-> [rows[i] EXCEPT !.gid = i - 1]]

\* BibedDataStore.append: a row for the entry; its gid column holds the
\* entry's gid until the next recompute.
Row(gid, filename, key) == [gid |-> gid, filename |-> filename, key |-> key]

AppendEntries(rows, filename, entries) ==
    rows \o [i \in DOMAIN entries |-> Row(-1, filename, entries[i].ID)]

\* BibedDataStore.insert_entry
insert_entry(rows, filename, entry) ==
    do_recompute_global_ids(Append(rows, Row(-1, filename, entry.ID)))

\* delete_entry taking the row before the one of the entry.
delete_entry_off_by_one(rows, gid) ==
    LET Keep(row) == row.gid # gid - 1
    IN  do_recompute_global_ids(SelectSeq(rows, Keep))

\* BibedDataStore.delete_entry
delete_entry(rows, gid) ==
    LET Keep(row) == row.gid # gid
    IN  do_recompute_global_ids(SelectSeq(rows, Keep))

\* clear_data forgetting to renumber the rows that remain.
clear_data_stale(rows, filename) ==
    LET Keep(row) == row.filename # filename
    IN  SelectSeq(rows, Keep)

\* BibedDataStore.clear_data (recompute=True)
clear_data(rows, filename) ==
    LET Keep(row) == row.filename # filename
    IN  do_recompute_global_ids(SelectSeq(rows, Keep))

----------------------------------------------------------------------------
(* The store operations, as functions of the part of the state they touch. *)

\* written lists the write() calls of the operation being computed and
\* raised names the exception it ends with ("" when it returns).
St == [files |-> files, data_store |-> data_store, disk |-> disk,
       wdd |-> wdd, events |-> events,
       num_user |-> num_user, num_system |-> num_system,
       written |-> <<>>, raised |-> ""]

Commit(S) ==
    /\ files' = S.files
    /\ data_store' = S.data_store
    /\ disk' = S.disk
    /\ wdd' = S.wdd
    /\ events' = S.events
    /\ num_user' = S.num_user
    /\ num_system' = S.num_system

\* BibedDatabase.write of the database at position i of the store: the file
\* is rewritten with the whole entry sequence, which the kernel reports to
\* the notifier when the path is watched.
write(S, i) ==
    LET db == S.files[i] IN
    [S EXCEPT !.disk = PutFile(@, db.filename, Serialize(db.entries)),
              !.events = IF db.filename \in S.wdd
                         THEN @ \cup {db.filename} ELSE @,
              !.written = Append(@, db.filename)]

\* BibedDatabase.write raising: at open(filename, 'w') the file is left as
\* it was; after it (serializing, writing) the file has been truncated.
write_raises(S, i, truncated) ==
    LET db == S.files[i] IN
    [S EXCEPT !.disk = IF truncated /\ exists(@, db.filename)
                       THEN PutFile(@, db.filename, <<>>) ELSE @,
              !.events = IF truncated /\ exists(S.disk, db.filename)
                            /\ db.filename \in S.wdd
                         THEN @ \cup {db.filename} ELSE @,
              !.raised = "OSError"]

\* The sibling file backup() makes for a file.  mkstemp gives every backup
\* a name of its own; the model keeps the latest backup of each file.
BackupName(filename) == filename \o ".save"

\* Where backup() can fail: nowhere, in mkstemp, in copyfile or copystat.
BackupFailures == {"", "mkstemp", "copyfile"}

\* BibedDatabase.backup of the database at position i of the store.  mkstemp
\* creates the empty sibling file and is called outside the try; what
\* copyfile and copystat raise (also for a file that is gone) is logged.
backup(S, i, failure) ==
    LET filename == S.files[i].filename IN
    IF failure = "mkstemp"
    THEN [S EXCEPT !.raised = "OSError"]
    ELSE [S EXCEPT !.disk =
             PutFile(@, BackupName(filename),
                     IF failure = "" /\ exists(S.disk, filename)
                     THEN S.disk[filename] ELSE <<>>)]

\* BibedDatabase.write when the preference backup_before_save is set.
write_backup_before_save(S, i, failure) ==
    LET S1 == backup(S, i, failure)
    IN  IF S1.raised # "" THEN S1 ELSE write(S1, i)

\* parse appending the rows whatever impact_data_store says.
parse_impacting(S, filename, filetype, impact_data_store) ==
    IF ~exists(S.disk, filename)
    THEN [S EXCEPT !.raised = "FileNotFoundError"]
    ELSE [S EXCEPT !.data_store =
             do_recompute_global_ids(
                 AppendEntries(@, filename, ParseFile(S.disk[filename])))]

\* BibedFileStore.parse: the BibedDatabase is built first, which opens and
\* parses the file; only then are the rows appended.
parse(S, filename, filetype, impact_data_store) ==
    IF ~exists(S.disk, filename)
    THEN [S EXCEPT !.raised = "FileNotFoundError"]
    ELSE IF ~Parsable(S.disk[filename])
    THEN [S EXCEPT !.raised = "ParseError"]
    ELSE IF impact_data_store
    THEN [S EXCEPT !.data_store =
             do_recompute_global_ids(
                 AppendEntries(@, filename, ParseFile(S.disk[filename])))]
    ELSE S

\* load that registers no watch.
load_unwatched(S, filename, filetype) ==
    LET transient == filetype = TRANSIENT
        S1 == parse(S, filename, filetype, ~transient)
    IN  IF has(S.files, filename)
        THEN [S EXCEPT !.raised = "AlreadyLoadedException"]
        ELSE IF S1.raised # "" THEN S1
        ELSE
        [S1 EXCEPT
            !.num_user   = IF filetype = USER THEN @ + 1 ELSE @,
            !.num_system = IF filetype # USER /\ IsSystem(filetype)
                           THEN @ + 1 ELSE @,
            !.files      = Append(@, Database(filename, filetype,
                                              ParseFile(S.disk[filename])))]

\* BibedFileStore.load(filename, filetype)
load(S, filename, filetype) ==
    LET transient == filetype = TRANSIENT
        S1 == parse(S, filename, filetype, ~transient)
    IN  IF has(S.files, filename)
        THEN [S EXCEPT !.raised = "AlreadyLoadedException"]
        ELSE IF S1.raised # "" THEN S1
        ELSE
        [S1 EXCEPT
            !.wdd        = IF transient THEN @ ELSE @ \cup {filename},
            !.num_user   = IF filetype = USER THEN @ + 1 ELSE @,
            !.num_system = IF filetype # USER /\ IsSystem(filetype)
                           THEN @ + 1 ELSE @,
            !.files      = Append(@, Database(filename, filetype,
                                              ParseFile(S.disk[filename])))]

\* close saving the database while its file is still watched.
close_saves_watched(S, filename, save_before) ==
    LET i  == IndexOfFilename(S.files, filename)
        db == S.files[i]
        S1 == [S EXCEPT !.num_user = IF db.filetype = USER THEN @ - 1 ELSE @]
        S2 == IF save_before THEN write(S1, i) ELSE S1
    IN  IF i = 0 THEN [S EXCEPT !.raised = "AssertionError"]
        ELSE [S2 EXCEPT
                !.wdd        = @ \ {filename},
                !.files      = RemoveAt(@, i),
                !.data_store = clear_data(@, filename)]

\* BibedFileStore.close(filename, save_before).  The counters are changed
\* first; inotify_remove_watch(filename, delete=True) raises KeyError when
\* the filename has no watch; for a filename that is not loaded the call
\* ends in save(None) or on its assertion.
close(S, filename, save_before) ==
    LET i         == IndexOfFilename(S.files, filename)
        db        == S.files[i]
        transient == db.filetype = TRANSIENT
        S1 == [S EXCEPT
                 !.num_user   = IF db.filetype = USER THEN @ - 1 ELSE @,
                 !.num_system = IF db.filetype # USER /\ db.filetype = SYSTEM
                                THEN @ - 1 ELSE @]
        S2 == [S1 EXCEPT !.wdd = IF transient THEN @ ELSE @ \ {filename}]
        S3 == IF save_before THEN write(S2, i) ELSE S2
    IN  IF i = 0
        THEN IF filename \in S.wdd
             THEN [S EXCEPT !.wdd = @ \ {filename},
                            !.raised = IF save_before
                                       THEN "NotImplementedError"
                                       ELSE "AssertionError"]
             ELSE [S EXCEPT !.raised = "KeyError"]
        ELSE IF ~transient /\ filename \notin S.wdd
        THEN [S1 EXCEPT !.raised = "KeyError"]
        ELSE
        [S3 EXCEPT
            !.files      = RemoveAt(@, i),
            !.data_store = IF transient THEN @ ELSE clear_data(@, filename)]


\* BibedFileStore.close_all(save_before): over a copy of the store, in its
\* order, the databases whose filetype is neither FileTypes.SYSTEM nor
\* FileTypes.USER are skipped and the others are closed; an exception of a
\* close ends the loop.
RECURSIVE close_all_of(_, _, _)
close_all_of(S, databases, save_before) ==
    IF databases = <<>> \/ S.raised # "" THEN S
    ELSE LET database == Head(databases) IN
         close_all_of(
             IF database.filetype \notin {SYSTEM, USER} THEN S
             ELSE close(S, database.filename, save_before),
             Tail(databases), save_before)

close_all(S, save_before) == close_all_of(S, S.files, save_before)

\* reload loading the file again over the rows it had.
reload_keeping_rows(S, filename) ==
    LET S1 == close(S, filename, FALSE)
    IN  IF S1.raised # "" THEN S1
        ELSE load([S1 EXCEPT !.data_store = S.data_store], filename, USER)

\* BibedFileStore.reload(filename) without its lock: close(save_before=
\* False), then load(filename) with the default filetype.
reload(S, filename) ==
    LET S1 == close(S, filename, FALSE)
    IN  IF S1.raised # "" THEN S1 ELSE load(S1, filename, USER)

\* BibedFileStore.close(filename, save_before=True) of a loaded filename
\* whose save raises: what was done before self.save() stays done.
close_save_raises(S, filename, truncated) ==
    LET i         == IndexOfFilename(S.files, filename)
        db        == S.files[i]
        transient == db.filetype = TRANSIENT
        S1 == [S EXCEPT
                 !.num_user   = IF db.filetype = USER THEN @ - 1 ELSE @,
                 !.num_system = IF db.filetype # USER /\ db.filetype = SYSTEM
                                THEN @ - 1 ELSE @,
                 !.wdd        = IF transient THEN @ ELSE @ \ {filename}]
    IN  write_raises(S1, i, truncated)

\* get_entry_by_path: the entry a data store row stands for is looked up by
\* the filename and the key of the row.  Position of the database in the
\* store and of the entry in the database (0 when it cannot be found); the
\* key index of the database maps a key to the entry registered last.
RowDatabase(S, row) == IndexOfFilename(S.files, row.filename)

RowEntry(S, row) ==
    LET Test(entry) == entry.ID = row.key
    IN  LastIndex(S.files[RowDatabase(S, row)].entries, Test)

----------------------------------------------------------------------------
(* BibedEntry: the fields, the keywords and the verbb side channel.        *)

\* A string of a field is kept as the pieces between its separators, so
\* that ''.split(',') is <<"">> and 'a, b' is <<"a", "b">>; the pieces are
\* stripped.  None and the empty list are the empty sequence.
EmptyString == <<"">>
None        == <<>>

\* separator.join(tokens)
Join(tokens) == IF tokens = <<>> THEN EmptyString ELSE tokens

\* dict operations on bib_dict.
DictGet(d, name, default) == IF name \in DOMAIN d THEN d[name] ELSE default

DictSet(d, name, value) ==
    [n \in DOMAIN d \cup {name} |-> IF n = name THEN value ELSE d[n]]

DictDel(d, name) == [n \in DOMAIN d \ {name} |-> d[n]]

JABREF_QUALITY_KEYWORDS == <<"qualityAssured">>
JABREF_READ_KEYWORDS    == <<"skimmed", "read">>

TRASHED_FROM == "trashedFrom"
TRASHED_DATE == "trashedDate"

\* isotoday()
Today == "today"

\* What the verbb dictionary can hold, and 'key:value'.
VerbbKeys   == {TRASHED_FROM, TRASHED_DATE}
VerbbValues == UserPaths \cup {Today}

VerbbLine(key, value) == key \o ":" \o value

\* line.split(':')
SplitVerbbLine(line) ==
    CHOOSE pair \in VerbbKeys \X VerbbValues :
       line = VerbbLine(pair[1], pair[2])

\* BibedEntry.__internal_split_tokens
internal_split_tokens(value) ==
    LET NotEmpty(token) == token # "" IN SelectSeq(value, NotEmpty)

\* list.remove(token) of a token the list holds: its first occurrence.
ListRemove(tokens, token) ==
    LET Test(t) == t = token IN RemoveAt(tokens, FirstIndex(tokens, Test))

ListHas(tokens, token) == \E n \in DOMAIN tokens : tokens[n] = token

\* BibedEntry.__init__(database, entry), database "" for None.
BibedEntry(database, entry) ==
    [bib_dict |-> entry,
     database |-> database,
     internal_verbb |->
        LET lines == internal_split_tokens(DictGet(entry, "verbb", EmptyString))
        IN  [n \in DOMAIN lines |-> SplitVerbbLine(lines[n])],
     internal_keywords |->
        internal_split_tokens(DictGet(entry, "keywords", EmptyString)),
     raised |-> ""]

\* The database of an entry that has none (None).
NoDatabase == ""

\* BibedEntry.copy: a new entry over a copy of bib_dict, with no database.
copy(E) == BibedEntry(NoDatabase, E.bib_dict)

\* BibedEntry.new_from_entry: a new entry in the database of the duplicated
\* one, over a copy of its bib_dict without the key; KeyError without a key.
new_from_entry(entry_to_dupe) ==
    IF "ID" \in DOMAIN entry_to_dupe.bib_dict
    THEN BibedEntry(entry_to_dupe.database,
                    DictDel(entry_to_dupe.bib_dict, "ID"))
    ELSE [entry_to_dupe EXCEPT !.raised = "KeyError"]

\* BibedEntry.key
entry_key(E) == DictGet(E.bib_dict, "ID", None)

\* BibedEntry.__internal_translate
internal_translate(name) == IF name = "key" THEN "ID" ELSE name

\* BibedEntry.quality
quality(E) ==
    IF ListHas(E.internal_keywords, JABREF_QUALITY_KEYWORDS[1])
    THEN JABREF_QUALITY_KEYWORDS[1] ELSE ""

\* BibedEntry.read_status: the first of JABREF_READ_KEYWORDS the list holds.
read_status(E) ==
    IF ListHas(E.internal_keywords, JABREF_READ_KEYWORDS[1])
    THEN JABREF_READ_KEYWORDS[1]
    ELSE IF ListHas(E.internal_keywords, JABREF_READ_KEYWORDS[2])
    THEN JABREF_READ_KEYWORDS[2]
    ELSE ""

\* BibedEntry.keywords: a copy of the list without one occurrence of each
\* JabRef keyword.
RECURSIVE WithoutTokens(_, _)
WithoutTokens(tokens, removed) ==
    IF removed = <<>> THEN tokens
    ELSE WithoutTokens(IF ListHas(tokens, Head(removed))
                       THEN ListRemove(tokens, Head(removed)) ELSE tokens,
                       Tail(removed))

keywords(E) ==
    WithoutTokens(E.internal_keywords,
                  JABREF_QUALITY_KEYWORDS \o JABREF_READ_KEYWORDS)

\* BibedEntry.__internal_add_keywords
internal_add_keywords(E, added) ==
    LET tokens == E.internal_keywords \o added IN
    [E EXCEPT !.internal_keywords = tokens,
              !.bib_dict = DictSet(@, "keywords", Join(tokens))]

\* BibedEntry.__internal_remove_keywords of one keyword: list.remove raises
\* ValueError for a keyword the list does not hold (IndexError is what the
\* method catches); the field is written again from the list.
internal_remove_keywords(E, removed) ==
    IF ~ListHas(E.internal_keywords, removed[1])
    THEN [E EXCEPT !.raised = "ValueError"]
    ELSE LET tokens == ListRemove(E.internal_keywords, removed[1]) IN
         [E EXCEPT !.internal_keywords = tokens,
                   !.bib_dict = DictSet(@, "keywords", Join(tokens))]

\* BibedEntry.__internal_set_verbb
internal_set_verbb(E) ==
    [E EXCEPT !.bib_dict =
        DictSet(@, "verbb",
                Join([n \in DOMAIN E.internal_verbb |->
                        VerbbLine(E.internal_verbb[n][1],
                                  E.internal_verbb[n][2])]))]

\* BibedEntry.set_timestamp_and_owner with bib_add_timestamp set and no
\* owner name: the timestamp is written when the entry has none.
set_timestamp_and_owner(E) ==
    IF "timestamp" \in DOMAIN E.bib_dict THEN E
    ELSE [E EXCEPT !.bib_dict = DictSet(@, "timestamp", <<Today>>)]

\* BibedEntry.get_field(name)
get_field(E, name) ==
    IF name = "keywords"
    THEN Join(internal_split_tokens(keywords(E)))
    ELSE DictGet(E.bib_dict, internal_translate(name), None)

\* BibedEntry.set_field_keywords(value) for a str value.  del raises
\* KeyError when there is nothing to write and no field to remove.
set_field_keywords(E, value) ==
    LET tokens == internal_split_tokens(value)
                     \o <<read_status(E)>> \o <<quality(E)>>
        flattened_keywords == internal_split_tokens(tokens)
        E1 == [E EXCEPT !.internal_keywords = tokens]
    IN  IF flattened_keywords # <<>>
        THEN [E1 EXCEPT !.bib_dict =
                 DictSet(@, "keywords", flattened_keywords)]
        ELSE IF "keywords" \in DOMAIN E.bib_dict
        THEN [E1 EXCEPT !.bib_dict = DictDel(@, "keywords")]
        ELSE [E1 EXCEPT !.raised = "KeyError"]

\* BibedEntry.set_field(name, value): an empty value deletes bib_dict[name],
\* the name as given; otherwise the name is translated and the value goes
\* to set_field_<name> when there is one.
set_field(E, name, value) ==
    IF value = None \/ value = EmptyString
    THEN [E EXCEPT !.bib_dict = DictDel(@, name)]
    ELSE IF internal_translate(name) = "keywords"
    THEN set_field_keywords(E, value)
    ELSE [E EXCEPT !.bib_dict = DictSet(@, internal_translate(name), value)]

\* BibedEntry.toggle_quality
toggle_quality(E) ==
    LET E1 == IF quality(E) = ""
              THEN internal_add_keywords(E, <<JABREF_QUALITY_KEYWORDS[1]>>)
              ELSE internal_remove_keywords(E, <<JABREF_QUALITY_KEYWORDS[1]>>)
    IN  IF E1.raised # "" THEN E1 ELSE set_timestamp_and_owner(E1)

\* BibedEntry.cycle_read_status
cycle_read_status(E) ==
    LET status == read_status(E)
        E1 == IF status = ""
              THEN internal_add_keywords(E, <<JABREF_READ_KEYWORDS[1]>>)
              ELSE IF status = JABREF_READ_KEYWORDS[1]
              THEN LET E2 == internal_remove_keywords(
                                 E, <<JABREF_READ_KEYWORDS[1]>>)
                   IN  IF E2.raised # "" THEN E2
                       ELSE internal_add_keywords(
                                E2, <<JABREF_READ_KEYWORDS[2]>>)
              ELSE internal_remove_keywords(E, <<JABREF_READ_KEYWORDS[2]>>)
    IN  IF E1.raised # "" THEN E1 ELSE set_timestamp_and_owner(E1)

\* BibedEntry.is_trashed on the verbb dictionary.
VerbbHas(E, key) ==
    \E n \in DOMAIN E.internal_verbb : E.internal_verbb[n][1] = key

\* set_trashed without its assertions.
set_trashed_unasserted(E, trashed) ==
    LET Kept(pair) == pair[1] \notin {TRASHED_FROM, TRASHED_DATE} IN
    internal_set_verbb(
        [E EXCEPT !.internal_verbb =
            IF trashed
            THEN SelectSeq(@, Kept) \o << <<TRASHED_FROM, E.database>>,
                                          <<TRASHED_DATE, Today>> >>
            ELSE SelectSeq(@, Kept)])

\* BibedEntry.set_trashed(is_trashed) on the fields of the entry.
set_trashed_verbb(E, trashed) ==
    LET Kept(pair) == pair[1] \notin {TRASHED_FROM, TRASHED_DATE} IN
    IF trashed = VerbbHas(E, TRASHED_FROM)
    THEN [E EXCEPT !.raised = "AssertionError"]
    ELSE internal_set_verbb(
            [E EXCEPT !.internal_verbb =
                IF trashed
                THEN @ \o << <<TRASHED_FROM, E.database>>,
                             <<TRASHED_DATE, Today>> >>
                ELSE SelectSeq(@, Kept)])

\* The entry an operation leaves behind, whether it returned or raised.
Left(E) == [E EXCEPT !.raised = ""]

----------------------------------------------------------------------------
(* Initial state: the store after construction and load_system_files.      *)

SystemNames == {SystemFiles[i][1] : i \in DOMAIN SystemFiles}

\* The files the user opens, closes, reloads and adds entries to.
OperatedPaths == UserPaths

\* What another program writes into a file of the user.
ExternalContents == {<<NewEntry("k2")>>}

----------------------------------------------------------------------------
(* One BibedDatabase: the ordered entries and the key index.               *)

\* BibedDatabase.__init__: self.entries[entry['ID']] = (entry, index) for
\* the entries of bibdb.entries in their order, a later entry replacing the
\* mapping of an earlier one of the same key.  The entry of a mapping is the
\* very object of the list, so the index keeps the position only.
BibedDatabase(parsed) ==
    [bibdb_entries |-> parsed,
     entries |->
        [k \in {parsed[n].ID : n \in DOMAIN parsed} |->
            LastIndex(parsed, LAMBDA e : e.ID = k) - 1],
     raised |-> ""]

\* BibedDatabase.keys
database_keys(D) == DOMAIN D.entries

\* BibedDatabase.add_entry(entry)
database_add_entry(D, entry) ==
    LET new_index == Len(D.bibdb_entries) IN
    [D EXCEPT
        !.entries = [k \in DOMAIN @ \cup {entry.ID} |->
                        IF k = entry.ID THEN new_index ELSE @[k]],
        !.bibdb_entries = Append(@, entry)]

\* BibedDatabase.move_entry(entry), entry.index being index: the first of
\* the old keys (entry['ids']) the index knows gives old_index; without one,
\* `del self.entries[old_key]` raises KeyError.  The mapping of the old key
\* is replaced by one of the new key at old_index, the list element at
\* old_index is replaced by the entry, and `assert(entry.index)` raises
\* after that when the index is 0.
database_move_entry(D, entry, index) ==
    LET Known(k)  == k \in database_keys(D)
        n         == FirstIndex(entry.ids, Known)
        old_key   == entry.ids[n]
        old_index == D.entries[old_key]
    IN  IF n = 0 THEN [D EXCEPT !.raised = "KeyError"]
        ELSE [D EXCEPT
                !.entries = [k \in (DOMAIN @ \ {old_key}) \cup {entry.ID} |->
                                IF k = entry.ID THEN old_index ELSE @[k]],
                !.bibdb_entries =
                    SubSeq(@, 1, old_index) \o <<entry>>
                        \o SubSeq(@, old_index + 2, Len(@)),
                !.raised = IF index = 0 THEN "AssertionError" ELSE ""]

\* The key is known to the database as a key or as an alias (has_bib_key).
DatabaseAnswersToKey(D, key) ==
    \E n \in DOMAIN D.bibdb_entries :
        EntryAnswersToKey(D.bibdb_entries[n], key)

\* The rename of the editor on the entry at position index: the old key goes
\* first in ids and the key is replaced, in the entry object the list holds;
\* then move_entry.
rename_entry(D, index, key) ==
    LET old == D.bibdb_entries[index + 1]
        new == [old EXCEPT !.ID = key, !.ids = <<old.ID>> \o old.ids]
    IN  database_move_entry(
            [D EXCEPT !.bibdb_entries[index + 1] = new], new, index)


Init ==
    /\ files = [i \in DOMAIN SystemFiles |->
                  Database(SystemFiles[i][1], SystemFiles[i][2], <<>>)]
    /\ data_store = <<>>
    /\ disk = [p \in Paths |->
                 IF p \in SystemNames THEN <<>> ELSE <<NewEntry("k1")>>]
    /\ wdd = SystemNames
    /\ events = {}
    /\ lock = [owner |-> NOBODY, count |-> 0]
    /\ idle = <<>>
    /\ num_user = 0
    /\ num_system = Len(SystemFiles)
    /\ writing = NoWrite
    /\ burst_writes = 0
    /\ edited_entry = BibedEntry("a.bib", [ID |-> <<"k1">>])
    /\ edited_database = BibedDatabase(<<NewEntry("k1")>>)

\* The primary thread is free to start an operation.
MainIdle == writing = NoWrite

----------------------------------------------------------------------------
(* File operations of the primary thread.                                  *)

\* BibedFileStore.load(filename): a user opens a file.
Load(p) ==
    /\ MainIdle
    /\ Commit(load(St, p, USER))
    /\ UNCHANGED object_vars
    /\ UNCHANGED <<lock, idle, writing, burst_writes>>

\* The open user files that num_user does not count any more.
DriftOf(S) ==
    Cardinality({i \in DOMAIN S.files : S.files[i].filetype = USER})
       - S.num_user

Drift == DriftOf(St)

\* BibedFileStore.close(filename, save_before).
Close(p, save_before) ==
    /\ MainIdle
    /\ LET R == close(St, p, save_before) IN
       /\ DriftOf(R) <= MaxDrift
       /\ Commit(R)
    /\ UNCHANGED <<lock, idle, writing, burst_writes>>
    /\ UNCHANGED object_vars

\* BibedFileStore.reload(filename): the result of the non-blocking acquire
\* is not looked at; close and load always run.  unlock() swallows the
\* error of releasing a lock this thread does not own.  When close or load
\* raises, the lock is not released.
Reload(p) ==
    /\ MainIdle
    /\ LET locked == Acquire(lock, MAIN)
           R      == reload(St, p)
       IN  /\ Commit(R)
           /\ IF R.raised = ""
              THEN lock' = Release(locked, MAIN)
              ELSE /\ lock.count < MaxLock
                   /\ DriftOf(R) <= MaxDrift
                   /\ lock' = locked
    /\ UNCHANGED object_vars
    /\ UNCHANGED <<idle, writing, burst_writes>>

----------------------------------------------------------------------------
(* Saving.                                                                 *)

SaveCallback(p)   == [cb |-> "save_trigger_callback", path |-> p]
ModifyCallback(p) == [cb |-> "on_file_modify_callback", path |-> p]

PendingSaves(queue, p) == {i \in DOMAIN queue : queue[i] = SaveCallback(p)}

NoPendingSave(queue) ==
    \A i \in DOMAIN queue : queue[i].cb # "save_trigger_callback"

\* BibedFileStore.trigger_save(filename): non-blocking acquire; when it is
\* refused the request is dropped, otherwise the callback is queued and the
\* lock is kept.
trigger_save(p) ==
    /\ MainIdle
    /\ has(files, p)
    /\ IF CanAcquire(lock, MAIN)
       THEN /\ Len(idle) < MaxIdle
            /\ lock.count < MaxLock
            /\ lock' = Acquire(lock, MAIN)
            /\ idle' = Append(idle, SaveCallback(p))
       ELSE /\ UNCHANGED <<lock, idle>>
    /\ burst_writes' = IF NoPendingSave(idle) THEN 0 ELSE burst_writes
    /\ UNCHANGED object_vars
    /\ UNCHANGED <<files, data_store, disk, wdd, events,
                   num_user, num_system, writing>>

\* BibedFileStore.save_trigger_callback(filename), run by the idle queue:
\* save(filename) raises NoDatabaseForFilenameError when the file was closed
\* meanwhile, and the release after it is then not reached.
save_trigger_callback ==
    /\ MainIdle
    /\ idle # <<>>
    /\ Head(idle).cb = "save_trigger_callback"
    /\ idle' = Tail(idle)
    /\ LET p == Head(idle).path IN
       IF has(files, p)
       THEN /\ Commit(write(St, IndexOfFilename(files, p)))
            /\ lock' = Release(lock, MAIN)
            /\ burst_writes' = IF burst_writes < 2 THEN burst_writes + 1
                                                    ELSE burst_writes
       ELSE /\ UNCHANGED <<files, data_store, disk, wdd, events,
                           num_user, num_system, lock, burst_writes>>
    /\ UNCHANGED object_vars
    /\ UNCHANGED writing

\* BibedFileStore.save(filename) -> BibedDatabase.write(), in its two steps
\* on the file: open(filename, 'w') truncates it ...
write_open(p) ==
    /\ MainIdle
    /\ has(files, p)
    /\ exists(disk, p)
    /\ LET db == files[IndexOfFilename(files, p)] IN
       writing' = [path |-> p, old |-> disk[p],
                   new |-> Serialize(db.entries)]
    /\ disk' = PutFile(disk, p, <<>>)
    /\ events' = IF p \in wdd THEN events \cup {p} ELSE events
    /\ UNCHANGED object_vars
    /\ UNCHANGED <<files, data_store, wdd, lock, idle,
                   num_user, num_system, burst_writes>>

\* ... and bibfile.write() with the close of the file puts the new content.
write_flush ==
    /\ writing # NoWrite
    /\ disk' = PutFile(disk, writing.path, writing.new)
    /\ events' = IF writing.path \in wdd
                 THEN events \cup {writing.path} ELSE events
    /\ writing' = NoWrite
    /\ UNCHANGED object_vars
    /\ UNCHANGED <<files, data_store, wdd, lock, idle,
                   num_user, num_system, burst_writes>>

\* ... unless serializing or bibfile.write() raises: the exception leaves
\* write() with the file truncated.
write_fails ==
    /\ writing # NoWrite
    /\ writing' = NoWrite
    /\ UNCHANGED object_vars
    /\ UNCHANGED <<files, data_store, disk, wdd, events, lock, idle,
                   num_user, num_system, burst_writes>>

----------------------------------------------------------------------------
(* The notifier thread and the outside world.                              *)

\* Another program rewrites a file of the user.
ExternalModify(p, content) ==
    /\ p \in UserPaths
    /\ exists(disk, p)
    /\ content # disk[p]
    /\ disk' = [disk EXCEPT ![p] = content]
    /\ events' = IF p \in wdd THEN events \cup {p} ELSE events
    /\ UNCHANGED object_vars
    /\ UNCHANGED <<files, data_store, wdd, lock, idle,
                   num_user, num_system, writing, burst_writes>>

\* PyinotifyEventHandler.process_IN_MODIFY -> BibedFileStore.on_file_modify,
\* on the notifier thread: non-blocking acquire by that thread, then the
\* callback is queued for the primary thread.  Nothing releases here.
on_file_modify(p) ==
    /\ p \in events
    /\ events' = events \ {p}
    /\ IF CanAcquire(lock, NOTIFIER)
       THEN /\ Len(idle) < MaxIdle
            /\ lock.count < MaxLock
            /\ lock' = Acquire(lock, NOTIFIER)
            /\ idle' = Append(idle, ModifyCallback(p))
       ELSE /\ UNCHANGED <<lock, idle>>
    /\ UNCHANGED object_vars
    /\ UNCHANGED <<files, data_store, disk, wdd,
                   num_user, num_system, writing, burst_writes>>

\* BibedFileStore.on_file_modify_callback(event), run by the idle queue: it
\* calls self.reload(filename, message) while reload takes the filename
\* only, so the call raises TypeError before reload's body runs.
on_file_modify_callback ==
    /\ MainIdle
    /\ idle # <<>>
    /\ Head(idle).cb = "on_file_modify_callback"
    /\ idle' = Tail(idle)
    /\ UNCHANGED object_vars
    /\ UNCHANGED <<files, data_store, disk, wdd, events, lock,
                   num_user, num_system, writing, burst_writes>>

----------------------------------------------------------------------------
(* Entry operations of the primary thread.                                 *)

\* Replace the entries of the database at position i of the store.
WithEntries(S, i, entries) == [S EXCEPT !.files[i].entries = entries]

\* BibedDatabase.add_entry followed by BibedDataStore.insert_entry.
add_entry(S, i, entry) ==
    LET S1 == WithEntries(S, i, Append(S.files[i].entries, entry))
    IN  IF S.files[i].filetype = TRANSIENT THEN S1
        ELSE [S1 EXCEPT !.data_store =
                 insert_entry(@, S.files[i].filename, entry)]

\* Database remove(entry) followed by BibedDataStore.delete_entry: the
\* entry (row gid, position j of database i) leaves its database and its row.
remove_entry(S, i, j, gid) ==
    LET S1 == WithEntries(S, i, RemoveAt(S.files[i].entries, j))
    IN  [S1 EXCEPT !.data_store = delete_entry(@, gid)]

\* The two-database move_entry(entry, destination) used by trash_entries and
\* untrash_entries: remove from the source, add to the destination.
move_entry(S, i, j, gid, entry, dest) ==
    add_entry(remove_entry(S, i, j, gid), dest, entry)

\* The editor dialog saves a brand new entry with a key that has_bib_key
\* does not know (can_save): add_entry, then save() under bib_auto_save.
AddEntry(p, key, save) ==
    /\ MainIdle
    /\ has(files, p)
    /\ has_bib_key(files, key) = ""
    /\ LET i == IndexOfFilename(files, p) IN
       /\ Len(files[i].entries) < MaxEntries
       /\ LET S1 == add_entry(St, i, NewEntry(key)) IN
          Commit(IF save THEN write(S1, i) ELSE S1)
    /\ UNCHANGED object_vars
    /\ UNCHANGED <<lock, idle, writing, burst_writes>>

\* BibedEntry.delete(write=True) of the entry of row gid.
DeleteEntry(gid) ==
    /\ MainIdle
    /\ gid + 1 \in DOMAIN data_store
    /\ LET row == data_store[gid + 1]
           i   == RowDatabase(St, row)
           j   == RowEntry(St, row)
       IN  /\ i # 0 /\ j # 0
           /\ Commit(write(remove_entry(St, i, j, gid), i))
    /\ UNCHANGED object_vars
    /\ UNCHANGED <<lock, idle, writing, burst_writes>>

\* on_rename_confirm_clicked: the new key must be unknown to has_bib_key;
\* the old key goes first in ids, the key is replaced in the database and in
\* the row (pivot_key), then save() under bib_auto_save.
RenameKey(gid, key, save) ==
    /\ MainIdle
    /\ gid + 1 \in DOMAIN data_store
    /\ has_bib_key(files, key) = ""
    /\ LET row == data_store[gid + 1]
           i   == RowDatabase(St, row)
           j   == RowEntry(St, row)
       IN  /\ i # 0 /\ j # 0
           /\ Len(files[i].entries[j].ids) < MaxIds
           /\ LET old == files[i].entries[j]
                  new == [old EXCEPT !.ID = key,
                                     !.ids = <<old.ID>> \o old.ids]
                  S1  == [St EXCEPT !.files[i].entries[j] = new,
                                    !.data_store[gid + 1].key = key]
              IN  Commit(IF save THEN write(S1, i) ELSE S1)
    /\ UNCHANGED object_vars
    /\ UNCHANGED <<lock, idle, writing, burst_writes>>

\* A BibedEntry handed to trash_entries or untrash_entries: the entry of a
\* data store row, known by its database and its key (get_entry_by_path).
EntryRef(filename, key) == [filename |-> filename, key |-> key]

RefOfRow(rows, gid) == EntryRef(rows[gid + 1].filename, rows[gid + 1].key)

\* The database, the entry and the row a reference stands for (0: none).
RefDatabase(S, ref) == IndexOfFilename(S.files, ref.filename)

RefEntry(S, ref) ==
    LET Test(entry) == entry.ID = ref.key
    IN  LastIndex(S.files[RefDatabase(S, ref)].entries, Test)

RefGid(S, ref) ==
    LET Test(row) == row.filename = ref.filename /\ row.key = ref.key
    IN  FirstIndex(S.data_store, Test) - 1

\* The databases of a set of filenames are written, one write() each.  The
\* iteration order of the Python set is not fixed; the writes of different
\* files commute.
RECURSIVE write_databases(_, _)
write_databases(S, filenames) ==
    IF filenames = {} THEN S
    ELSE LET f == CHOOSE f \in filenames : TRUE
         IN  write_databases(write(S, IndexOfFilename(S.files, f)),
                             filenames \ {f})

\* One pass of the loop of trash_entries: set_trashed() then move_entry()
\* to the trash database.  set_trashed asserts that the entry is not
\* trashed yet.
trash_one(S, ref) ==
    LET i == RefDatabase(S, ref)
        j == RefEntry(S, ref)
        t == IndexOfFiletype(S.files, TRASH)
    IN  IF is_trashed(S.files[i].entries[j])
        THEN [S EXCEPT !.raised = "AssertionError"]
        ELSE move_entry(S, i, j, RefGid(S, ref),
                        set_trashed(S.files[i].entries[j],
                                    S.files[i].filename, TRUE), t)

RECURSIVE trash_loop(_, _)
trash_loop(S, refs) ==
    IF refs = <<>> \/ S.raised # "" THEN S
    ELSE trash_loop(trash_one(S, Head(refs)), Tail(refs))

\* trash_entries writing the trash database once more than it should.
trash_entries_writes_twice(S, refs) ==
    LET databases_to_write ==
            {S.files[IndexOfFiletype(S.files, TRASH)].filename}
               \cup {refs[n].filename : n \in DOMAIN refs}
        S1 == trash_loop(S, refs)
    IN  IF S1.raised # "" THEN S1
        ELSE write_databases(write(S1, IndexOfFiletype(S1.files, TRASH)),
                             databases_to_write)

\* BibedFileStore.trash_entries(entries)
trash_entries(S, refs) ==
    LET databases_to_write ==
            {S.files[IndexOfFiletype(S.files, TRASH)].filename}
               \cup {refs[n].filename : n \in DOMAIN refs}
        S1 == trash_loop(S, refs)
    IN  IF S1.raised # "" THEN S1
        ELSE write_databases(S1, databases_to_write)

\* untrash_one moving the entry back with its trash mark still on.
untrash_one_keeps_mark(S, ref) ==
    LET t  == IndexOfFiletype(S.files, TRASH)
        j  == RefEntry(S, ref)
        trashed_from == trashed_informations(S.files[t].entries[j])
        S2 == IF has(S.files, trashed_from) THEN S
              ELSE load(S, trashed_from, TRANSIENT)
    IN  IF ~is_trashed(S.files[t].entries[j])
        THEN [S EXCEPT !.raised = "TypeError"]
        ELSE IF S2.raised # "" THEN S2
        ELSE move_entry(S2, t, j, RefGid(S2, ref), S.files[t].entries[j],
                        IndexOfFilename(S2.files, trashed_from))

\* One pass of the loop of untrash_entries.  trashed_informations is None
\* for an entry that is not trashed, and unpacking it raises.  The entry is
\* unmarked before its origin is looked for, and loaded when not open.
untrash_one(S, ref) ==
    LET t  == IndexOfFiletype(S.files, TRASH)
        j  == RefEntry(S, ref)
        trashed_from == trashed_informations(S.files[t].entries[j])
        entry == set_trashed(S.files[t].entries[j], "", FALSE)
        S1 == [S EXCEPT !.files[t].entries[j] = entry]
        S2 == IF has(S1.files, trashed_from) THEN S1
              ELSE load(S1, trashed_from, TRANSIENT)
    IN  IF ~is_trashed(S.files[t].entries[j])
        THEN [S EXCEPT !.raised = "TypeError"]
        ELSE IF S2.raised # "" THEN S2
        ELSE move_entry(S2, t, j, RefGid(S2, ref), entry,
                        IndexOfFilename(S2.files, trashed_from))

RECURSIVE untrash_loop(_, _)
untrash_loop(S, refs) ==
    IF refs = <<>> \/ S.raised # "" THEN S
    ELSE untrash_loop(untrash_one(S, Head(refs)), Tail(refs))

\* The databases untrash_entries closes at its end, in store order: those
\* it loaded itself.
RECURSIVE close_databases(_, _)
close_databases(S, filenames) ==
    IF filenames = {} THEN S
    ELSE LET f == CHOOSE f \in filenames : TRUE
         IN  close_databases(close(S, f, TRUE), filenames \ {f})

\* The origins of the entries of a batch, read from the trash database.
Origins(S, refs) ==
    LET t == IndexOfFiletype(S.files, TRASH)
    IN  {trashed_informations(S.files[t].entries[RefEntry(S, refs[n])]) :
            n \in {m \in DOMAIN refs : RefEntry(S, refs[m]) # 0}}

\* untrash_entries leaving open the databases it loaded.
untrash_entries_leaves_open(S, refs) ==
    LET trash == S.files[IndexOfFiletype(S.files, TRASH)].filename
        S1 == untrash_loop(S, refs)
        databases_to_write  == {trash} \cup Origins(S, refs)
    IN  IF S1.raised # "" THEN S1
        ELSE write_databases(S1, databases_to_write)

\* BibedFileStore.untrash_entries(entries)
untrash_entries(S, refs) ==
    LET trash == S.files[IndexOfFiletype(S.files, TRASH)].filename
        S1 == untrash_loop(S, refs)
        databases_to_write  == {trash} \cup Origins(S, refs)
        databases_to_unload ==
            {f \in Origins(S, refs) : ~has(S.files, f)}
    IN  IF S1.raised # "" THEN S1
        ELSE close_databases(write_databases(S1, databases_to_write),
                             databases_to_unload)

\* The batches of rows the user can select: up to MaxBatch different rows
\* standing for different entries, in any order.
IsBatch(rows, b) ==
    /\ Len(b) \in 1..MaxBatch
    /\ \A n \in DOMAIN b : b[n] \in 0..(Len(rows) - 1)
    /\ \A n, m \in DOMAIN b :
          n # m => RefOfRow(rows, b[n]) # RefOfRow(rows, b[m])

Batches(rows) ==
    {b \in UNION {[1..n -> 0..(Len(rows) - 1)] : n \in 1..MaxBatch} :
        IsBatch(rows, b)}

Refs(rows, batch) == [n \in DOMAIN batch |-> RefOfRow(rows, batch[n])]

\* Every reference of the batch stands for an entry of an open database.
Resolved(S, refs) ==
    \A n \in DOMAIN refs :
       RefDatabase(S, refs[n]) # 0 /\ RefEntry(S, refs[n]) # 0

\* The state stays within the bounds the model follows.
WithinBounds(S) ==
    /\ \A i \in DOMAIN S.files : Len(S.files[i].entries) <= MaxEntries
    /\ \A p \in DOMAIN S.disk : Len(S.disk[p]) <= MaxEntries
    /\ S.num_system <= MaxSystem

\* The user trashes the selected rows.
TrashEntries(batch) ==
    /\ MainIdle
    /\ IsBatch(data_store, batch)
    /\ IndexOfFiletype(files, TRASH) # 0
    /\ Resolved(St, Refs(data_store, batch))
    /\ LET S1 == trash_entries(St, Refs(data_store, batch)) IN
       /\ WithinBounds(S1)
       /\ Commit(S1)
    /\ UNCHANGED object_vars
    /\ UNCHANGED <<lock, idle, writing, burst_writes>>

\* The user restores the selected rows of the trash.
UntrashEntries(batch) ==
    /\ MainIdle
    /\ IsBatch(data_store, batch)
    /\ IndexOfFiletype(files, TRASH) # 0
    /\ \A n \in DOMAIN batch :
          data_store[batch[n] + 1].filename
             = files[IndexOfFiletype(files, TRASH)].filename
    /\ Resolved(St, Refs(data_store, batch))
    /\ LET S1 == untrash_entries(St, Refs(data_store, batch)) IN
       /\ WithinBounds(S1)
       /\ Commit(S1)
    /\ UNCHANGED object_vars
    /\ UNCHANGED <<lock, idle, writing, burst_writes>>

----------------------------------------------------------------------------
(* The store under the operations of the user on the primary thread.       *)

Next ==
    \/ \E p \in OperatedPaths : Load(p)
    \/ \E p \in OperatedPaths, save_before \in BOOLEAN : Close(p, save_before)
    \/ \E p \in OperatedPaths : has(files, p) /\ Reload(p)
    \/ \E p \in OperatedPaths, key \in Keys, save \in BOOLEAN :
          AddEntry(p, key, save)
    \/ \E gid \in 0..(Len(data_store) - 1) : DeleteEntry(gid)
    \/ \E gid \in 0..(Len(data_store) - 1), key \in Keys, save \in BOOLEAN :
          RenameKey(gid, key, save)
    \/ \E gid \in 0..(Len(data_store) - 1) : TrashEntries(<<gid>>)
    \/ \E gid \in 0..(Len(data_store) - 1) : UntrashEntries(<<gid>>)

Spec == Init /\ [][Next]_vars

----------------------------------------------------------------------------
(* The write lock, the idle queue and the notifier thread around one open  *)
(* user file being edited, saved, reloaded and rewritten from outside.     *)

\* The file being edited, and the files a save is requested for.
EditedPaths == {"a.bib"}
SavePaths   == {"a.bib", BIBED_SYSTEM_TRASH_NAME}

NextSave ==
    \/ \E p \in SavePaths : trigger_save(p)
    \/ save_trigger_callback
    \/ \E p \in EditedPaths : write_open(p)
    \/ write_flush
    \/ write_fails
    \/ \E p \in EditedPaths, content \in ExternalContents :
          ExternalModify(p, content)
    \/ \E p \in Paths : on_file_modify(p)
    \/ on_file_modify_callback
    \/ \E p \in EditedPaths : Load(p)
    \/ \E p \in EditedPaths, save_before \in BOOLEAN : Close(p, save_before)
    \/ \E p \in EditedPaths : Reload(p)
    \/ \E p \in EditedPaths, key \in Keys : AddEntry(p, key, FALSE)

SpecSave == Init /\ [][NextSave]_vars

----------------------------------------------------------------------------
(* Trash and restore of batches of entries, with origin files that are     *)
(* closed or removed meanwhile and writes that the file system refuses.    *)

\* Another program removes a file of the user that is not open.
ExternalDelete(p) ==
    /\ p \in UserPaths
    /\ exists(disk, p)
    /\ ~has(files, p)
    /\ disk' = RemoveFile(disk, p)
    /\ UNCHANGED object_vars
    /\ UNCHANGED <<files, data_store, wdd, events, lock, idle,
                   num_user, num_system, writing, burst_writes>>

\* BibedFileStore.close(filename) whose save raises.
CloseSaveRaises(p, truncated) ==
    /\ MainIdle
    /\ has(files, p)
    /\ p \in wdd
    /\ Drift < MaxDrift
    /\ Commit(close_save_raises(St, p, truncated))
    /\ UNCHANGED <<lock, idle, writing, burst_writes>>
    /\ UNCHANGED object_vars

\* BibedFileStore.trash_entries(entries) where the write() of the database
\* failing raises, after the databases of done were written.
trash_entries_write_raises(S, refs, done, failing, truncated) ==
    LET S1 == trash_loop(S, refs)
    IN  IF S1.raised # "" THEN S1
        ELSE write_raises(write_databases(S1, done),
                          IndexOfFilename(S1.files, failing), truncated)

\* The databases trash_entries has to write for a batch.
TrashWrites(S, refs) ==
    {S.files[IndexOfFiletype(S.files, TRASH)].filename}
       \cup {refs[n].filename : n \in DOMAIN refs}

TrashEntriesWriteRaises(batch, done, failing, truncated) ==
    /\ MainIdle
    /\ IsBatch(data_store, batch)
    /\ IndexOfFiletype(files, TRASH) # 0
    /\ Resolved(St, Refs(data_store, batch))
    /\ failing \in TrashWrites(St, Refs(data_store, batch))
    /\ done \subseteq TrashWrites(St, Refs(data_store, batch)) \ {failing}
    /\ LET S1 == trash_entries_write_raises(St, Refs(data_store, batch),
                                            done, failing, truncated) IN
       /\ WithinBounds(S1)
       /\ Commit(S1)
    /\ UNCHANGED object_vars
    /\ UNCHANGED <<lock, idle, writing, burst_writes>>

NextTrash ==
    \/ \E p \in UserPaths : Load(p)
    \/ \E p \in UserPaths : Close(p, TRUE)
    \/ \E p \in EditedPaths, key \in Keys : AddEntry(p, key, TRUE)
    \/ \E batch \in Batches(data_store) : TrashEntries(batch)
    \/ \E batch \in Batches(data_store) : UntrashEntries(batch)
    \/ \E p \in UserPaths : ExternalDelete(p)

SpecTrash == Init /\ [][NextTrash]_vars

\* The same store when the file system refuses a write: the failing write
\* is the first or the last of the operation.
NextFail ==
    \/ \E p \in UserPaths : Load(p)
    \/ \E p \in UserPaths : Close(p, TRUE)
    \/ \E p \in UserPaths, truncated \in BOOLEAN :
          CloseSaveRaises(p, truncated)
    \/ \E gid \in 0..(Len(data_store) - 1) : TrashEntries(<<gid>>)
    \/ \E gid \in 0..(Len(data_store) - 1), failing \in Paths,
          first \in BOOLEAN, truncated \in BOOLEAN :
          TrashEntriesWriteRaises(
              <<gid>>,
              IF first THEN {}
              ELSE TrashWrites(St, Refs(data_store, <<gid>>)) \ {failing},
              failing, truncated)

SpecFail == Init /\ [][NextFail]_vars

----------------------------------------------------------------------------
(* Keys and aliases: entries renamed several times.                        *)

NextKeys ==
    \/ \E p \in UserPaths : Load(p)
    \/ \E p \in UserPaths : Close(p, TRUE)
    \/ \E p \in UserPaths, key \in MoreKeys : AddEntry(p, key, TRUE)
    \/ \E gid \in 0..(Len(data_store) - 1), key \in MoreKeys :
          RenameKey(gid, key, TRUE)

SpecKeys == Init /\ [][NextKeys]_vars

----------------------------------------------------------------------------
(* Files another program filled with what the parser refuses or with the   *)
(* same key twice, opened, closed and reloaded by the user.                *)

ForeignContents ==
    {<<NewEntry("k1"), NewEntry("k1")>>, MalformedContent, <<NewEntry("k2")>>}

NextParse ==
    \/ \E p \in UserPaths, content \in ForeignContents :
          ExternalModify(p, content)
    \/ \E p \in UserPaths : Load(p)
    \/ \E p \in UserPaths, save_before \in BOOLEAN : Close(p, save_before)
    \/ \E p \in UserPaths : Reload(p)

SpecParse == Init /\ [][NextParse]_vars

----------------------------------------------------------------------------
(* Saving with the preference backup_before_save set.                      *)

\* BibedFileStore.save(filename) of an open file.
Save(p, failure) ==
    /\ MainIdle
    /\ has(files, p)
    /\ Commit(write_backup_before_save(St, IndexOfFilename(files, p),
                                       failure))
    /\ UNCHANGED object_vars
    /\ UNCHANGED <<lock, idle, writing, burst_writes>>

NextBackup ==
    \/ \E p \in UserPaths : Load(p)
    \/ \E p \in UserPaths : Close(p, FALSE)
    \/ \E p \in UserPaths, key \in Keys : AddEntry(p, key, FALSE)
    \/ \E p \in UserPaths, failure \in BackupFailures : Save(p, failure)

SpecBackup == Init /\ [][NextBackup]_vars

----------------------------------------------------------------------------
(* One entry under the operations of the editor and of the entry menu.     *)

\* What the parser hands to BibedEntry: an entry of a user file, with or
\* without keywords, and an entry of the trash with its verbb field.
ParsedKeywords ==
    {None, <<"a">>, <<"skimmed">>, <<"a", "qualityAssured">>}

ParsedEntries ==
    {BibedEntry("a.bib",
                IF kw = None THEN [ID |-> <<"k1">>]
                ELSE [ID |-> <<"k1">>, keywords |-> kw]) :
        kw \in ParsedKeywords}
    \cup
    {BibedEntry(BIBED_SYSTEM_TRASH_NAME,
                [ID |-> <<"k1">>,
                 verbb |-> <<VerbbLine(TRASHED_FROM, "a.bib"),
                             VerbbLine(TRASHED_DATE, Today)>>])}

\* The names and the values the editor hands to set_field.
EditedNames  == {"key", "title", "keywords"}
EditedValues == {None, EmptyString, <<"a">>, <<"a", "b">>, <<"read">>}

InitEntry ==
    /\ files = <<>>
    /\ data_store = <<>>
    /\ disk = [p \in Paths |-> <<>>]
    /\ wdd = {}
    /\ events = {}
    /\ lock = [owner |-> NOBODY, count |-> 0]
    /\ idle = <<>>
    /\ num_user = 0
    /\ num_system = 0
    /\ writing = NoWrite
    /\ burst_writes = 0
    /\ edited_entry \in ParsedEntries
    /\ edited_database = BibedDatabase(<<NewEntry("k1")>>)

SetField(name, value) ==
    /\ edited_entry' = Left(set_field(edited_entry, name, value))
    /\ UNCHANGED <<store_vars, edited_database>>

ToggleQuality ==
    /\ edited_entry' = Left(toggle_quality(edited_entry))
    /\ UNCHANGED <<store_vars, edited_database>>

CycleReadStatus ==
    /\ edited_entry' = Left(cycle_read_status(edited_entry))
    /\ UNCHANGED <<store_vars, edited_database>>

SetTrashed(trashed) ==
    /\ edited_entry' = Left(set_trashed_verbb(edited_entry, trashed))
    /\ UNCHANGED <<store_vars, edited_database>>

NextEntry ==
    \/ \E name \in EditedNames, value \in EditedValues : SetField(name, value)
    \/ ToggleQuality
    \/ CycleReadStatus
    \/ \E trashed \in BOOLEAN : SetTrashed(trashed)

SpecEntry == InitEntry /\ [][NextEntry]_vars

----------------------------------------------------------------------------
(* Key generation: EntryKeyGenerator and fix_field_key.                    *)

MINIMUM_BIB_KEY_LENGTH == 8

\* The tries one call of fix_field_key may need: a store of two user files
\* holds at most 2 * MaxEntries keys.
MaxTries == 2 * MaxEntries + 1

\* The entries a key is generated for: a book with author and title, a
\* paper with a title and a year only, an author whose name is shorter than
\* the minimum key length, and an entry with neither author nor title.
KeyedEntries ==
    {[type |-> "book", author |-> "Donald Knuth",
      title |-> "The Art Of Computer Programming", year |-> ""],
     [type |-> "inproceedings", author |-> "",
      title |-> "The Art Of Computer Programming", year |-> "1968"],
     [type |-> "book", author |-> "Li", title |-> "", year |-> ""],
     [type |-> "book", author |-> "", title |-> "", year |-> ""]}

\* EntryKeyGenerator.format_author on the authors of KeyedEntries: the
\* lowered last name of a single author.
format_author(author) ==
    CASE author = "Donald Knuth" -> "knuth"
      [] author = "Li"           -> "li"
      [] OTHER                   -> author

\* EntryKeyGenerator.format_title on the titles of KeyedEntries: the lowered
\* first letter of every word.
format_title(title) ==
    CASE title = "The Art Of Computer Programming" -> "taocp"
      [] OTHER                                     -> title

\* The hexadecimal digits uuid.uuid4().hex returns at its n-th call of one
\* run (shortened to MINIMUM_BIB_KEY_LENGTH digits); two calls never return
\* the same digits.
UuidSeeds == {"0a1b2c3", "4e5f607"}
uuid4_hex(seed, n) == seed \o ToString(n % 10)

\* '-{:02d}'.format(suffix); suffix 0 stands for None.
FormatSuffix(suffix) ==
    IF suffix = 0 THEN ""
    ELSE "-" \o (IF suffix < 10 THEN "0" ELSE "") \o ToString(suffix)

\* generate_new_key that leaves the suffix out of the key.
generate_new_key_unsuffixed(entry, suffix, uuid) ==
    IF entry.author = "" /\ entry.title = "" THEN uuid
    ELSE IF entry.title = "" THEN format_author(entry.author) \o entry.year
    ELSE IF entry.author = "" THEN format_title(entry.title) \o entry.year
    ELSE format_author(entry.author) \o "-" \o format_title(entry.title)

\* EntryKeyGenerator.generate_new_key(entry, suffix), uuid being the digits
\* uuid4().hex returns in this call.
generate_new_key(entry, suffix, uuid) ==
    LET prefix ==
            IF entry.type \notin {"book", "article", "misc", "booklet",
                                  "thesis", "online"}
            THEN SubSeq(entry.type, 1, 1) \o ":"
            ELSE ""
        result ==
            IF entry.title = ""
            THEN prefix \o format_author(entry.author) \o entry.year
                    \o FormatSuffix(suffix)
            ELSE IF entry.author = ""
            THEN prefix \o format_title(entry.title) \o entry.year
                    \o FormatSuffix(suffix)
            ELSE prefix \o format_author(entry.author) \o "-"
                    \o format_title(entry.title) \o FormatSuffix(suffix)
    IN  IF entry.author = "" /\ entry.title = "" THEN uuid
        ELSE IF Len(result) < MINIMUM_BIB_KEY_LENGTH
        THEN result \o SubSeq(uuid, 1, MINIMUM_BIB_KEY_LENGTH - Len(result))
        ELSE result

\* EntryFieldCheckMixin.fix_field_key: the key of try 0 is generated
\* without a suffix, the key of try n > 0 with the suffix n; the first key
\* has_bib_key does not know is returned.  counter is the number of the try,
\* returned is FALSE when MaxTries tries were all taken.
RECURSIVE fix_field_key(_, _, _, _)
fix_field_key(entry, fs, seed, counter) ==
    LET new_key == generate_new_key(entry, counter, uuid4_hex(seed, counter))
    IN  IF has_bib_key(fs, new_key) = ""
        THEN [new_key |-> new_key, counter |-> counter, returned |-> TRUE]
        ELSE IF counter + 1 >= MaxTries
        THEN [new_key |-> new_key, counter |-> counter, returned |-> FALSE]
        ELSE fix_field_key(entry, fs, seed, counter + 1)

\* The editor fixes the key of a new entry and saves the entry in a file.
FixKey(p, entry, seed) ==
    LET fixed == fix_field_key(entry, files, seed, 0) IN
    /\ fixed.returned
    /\ AddEntry(p, fixed.new_key, TRUE)

NextUnique ==
    \/ \E p \in UserPaths : Load(p)
    \/ \E p \in UserPaths : Close(p, TRUE)
    \/ \E p \in UserPaths, entry \in KeyedEntries, seed \in UuidSeeds :
          FixKey(p, entry, seed)

SpecUnique == Init /\ [][NextUnique]_vars

----------------------------------------------------------------------------
(* One database built from a file, then edited.                            *)

\* The keys of the entries of the database.
DatabaseKeys == MoreKeys \cup {"k4"}

\* What bibtexparser hands to the constructor: the entries of the file in
\* their order, two entries of one key included.
ParsedFiles ==
    {<<>>} \cup {<<NewEntry(k)>> : k \in Keys}
           \cup {<<NewEntry(k1), NewEntry(k2)>> : k1 \in Keys, k2 \in Keys}

InitDatabase ==
    /\ files = <<>>
    /\ data_store = <<>>
    /\ disk = [p \in Paths |-> <<>>]
    /\ wdd = {}
    /\ events = {}
    /\ lock = [owner |-> NOBODY, count |-> 0]
    /\ idle = <<>>
    /\ num_user = 0
    /\ num_system = 0
    /\ writing = NoWrite
    /\ burst_writes = 0
    /\ edited_entry = BibedEntry("a.bib", [ID |-> <<"k1">>])
    /\ edited_database \in {BibedDatabase(parsed) : parsed \in ParsedFiles}

\* The editor saves a new entry whose key is unknown.
DatabaseAddEntry(key) ==
    /\ Len(edited_database.bibdb_entries) <= MaxEntries
    /\ ~DatabaseAnswersToKey(edited_database, key)
    /\ edited_database' = database_add_entry(edited_database, NewEntry(key))
    /\ UNCHANGED <<store_vars, edited_entry>>

\* The editor renames the entry at a position to a key that is unknown.
DatabaseMoveEntry(index, key) ==
    /\ index + 1 \in DOMAIN edited_database.bibdb_entries
    /\ Len(edited_database.bibdb_entries[index + 1].ids) < MaxIds
    /\ ~DatabaseAnswersToKey(edited_database, key)
    /\ edited_database' =
          [rename_entry(edited_database, index, key) EXCEPT !.raised = ""]
    /\ UNCHANGED <<store_vars, edited_entry>>

NextDatabase ==
    \/ \E key \in DatabaseKeys : DatabaseAddEntry(key)
    \/ \E index \in 0..MaxEntries, key \in DatabaseKeys :
          DatabaseMoveEntry(index, key)

SpecDatabase == InitDatabase /\ [][NextDatabase]_vars

----------------------------------------------------------------------------
(* Closing every database, as the application does when it quits.          *)

CloseAll(save_before) ==
    /\ MainIdle
    /\ LET R == close_all(St, save_before) IN
       /\ DriftOf(R) <= MaxDrift
       /\ Commit(R)
    /\ UNCHANGED object_vars
    /\ UNCHANGED <<lock, idle, writing, burst_writes>>

NextCloseAll ==
    \/ \E p \in UserPaths : Load(p)
    \/ \E p \in UserPaths, key \in Keys, save \in BOOLEAN :
          AddEntry(p, key, save)
    \/ \E gid \in 0..(Len(data_store) - 1) : TrashEntries(<<gid>>)
    \/ \E save_before \in BOOLEAN : CloseAll(save_before)

SpecCloseAll == Init /\ [][NextCloseAll]_vars

----------------------------------------------------------------------------
(* Properties.                                                             *)

Range(s) == {s[i] : i \in DOMAIN s}

\* The (source_file, entry_key) pairs of the rows, in row order.
RowPairs(rows) == [i \in DOMAIN rows |-> <<rows[i].filename, rows[i].key>>]

\* The (filename, key) pairs of the entries of one database, in its order.
DatabasePairs(db) ==
    [j \in DOMAIN db.entries |-> <<db.filename, db.entries[j].ID>>]

\* Concatenation, in store order, of the entries of the databases that are
\* not transient.
RECURSIVE Flattened(_)
Flattened(fs) ==
    IF fs = <<>> THEN <<>>
    ELSE (IF Head(fs).filetype = TRANSIENT THEN <<>>
          ELSE DatabasePairs(Head(fs))) \o Flattened(Tail(fs))

\* C1: after any sequence of load, close, reload, trash_entries,
\* untrash_entries, insert_entry and delete_entry, the set of the global_id
\* values of the data store rows is exactly {0 .. N-1}, N the number of rows.
C1_GlobalIdsAreDense ==
    {data_store[i].gid : i \in DOMAIN data_store}
        = 0..(Len(data_store) - 1)

\* C1 witness: two user files are open, an entry sits in the trash after a
\* trash_entries, and rows of a user file and of the trash coexist.
C1_Witness ==
    /\ Len(data_store) >= 2
    /\ \E i \in DOMAIN files :
          /\ files[i].filetype = TRASH
          /\ \E j \in DOMAIN files[i].entries :
                is_trashed(files[i].entries[j])
    /\ \E i \in DOMAIN data_store : data_store[i].filename \in UserPaths
    /\ Cardinality({i \in DOMAIN files : files[i].filetype = USER}) = 2

C3_KeysAreUnique ==
    \A n, m \in DOMAIN files :
       \A i \in DOMAIN files[n].entries, j \in DOMAIN files[m].entries :
          (files[n].entries[i].ID = files[m].entries[j].ID)
             => (n = m /\ i = j)

\* C4: however many times trigger_save(path) is called before the idle
\* queue runs, exactly one deferred write of the path is scheduled and
\* exactly one write of it is executed.
C4_OneDeferredWrite ==
    [][ /\ \A p \in Paths :
              trigger_save(p) => Cardinality(PendingSaves(idle', p)) = 1
        /\ burst_writes' <= 1 ]_vars

\* C5: whenever trigger_save(path) returns, a write of that path is
\* pending.  The scheduling branch queues one itself; a dropped request
\* changes nothing, so the claim is that in every state where the primary
\* thread would be refused the lock a save of the path is already queued.
C5_DroppedSaveIsPending ==
    \A p \in Paths :
       (MainIdle /\ has(files, p) /\ ~CanAcquire(lock, MAIN))
          => PendingSaves(idle, p) # {}

\* C6: a reload(path) called while the write lock is held is skipped: the
\* registry, the entries in memory and the index are unchanged.
C6_ReloadSkippedWhenLocked ==
    [][ \A p \in Paths :
           (lock.count > 0 /\ Reload(p))
              => UNCHANGED <<files, data_store>> ]_vars

\* C7: a Modified(path) event delivered while the lock was free leads to a
\* reload on the primary thread: once its idle callback has run, the
\* entries in memory of the path, if it is open, are those of the file.
C7_ModifiedFileIsReloaded ==
    [][ on_file_modify_callback =>
           LET p == Head(idle).path IN
           has(files', p) =>
              files'[IndexOfFilename(files', p)].entries
                 = ParseFile(disk'[p]) ]_vars

\* C8: the notifier thread never owns the write lock once on_file_modify
\* has returned, that is while it waits for the next kernel event.
C8_NotifierNeverKeepsLock == lock.owner # NOTIFIER

\* C9: the acquisition made by trigger_save is released exactly once by its
\* deferred write: each run of save_trigger_callback, also one whose save
\* raises because the path was closed meanwhile, gives one hold back.
C9_CallbackReleasesLock ==
    [][ save_trigger_callback => lock'.count = lock.count - 1 ]_vars

\* C10: at every instant of a Database.write() the file holds either its
\* complete previous content or its complete new content.
C10_WriteIsAtomic ==
    writing # NoWrite
       => disk[writing.path] \in {writing.old, writing.new}

\* C11: if Database.write() fails at any step (opening, serializing or
\* writing), the file on disk still holds exactly the content it had
\* before the call.
C11_FailedWriteKeepsContent ==
    [][ (write_fails /\ ~write_flush)
           => disk'[writing.path] = writing.old ]_vars

\* The trash database of the store.
TrashOf(fs) == fs[IndexOfFiletype(fs, TRASH)]

HoldsKey(db, key) == \E j \in DOMAIN db.entries : db.entries[j].ID = key

HasRow(rows, filename, key) ==
    \E r \in DOMAIN rows :
       rows[r].filename = filename /\ rows[r].key = key

C13_TrashThenUntrashRestores ==
    \A gid \in 0..(Len(data_store) - 1) :
       LET ref == RefOfRow(data_store, gid)
           i   == RefDatabase(St, ref)
           j   == RefEntry(St, ref)
       IN  (i # 0 /\ j # 0 /\ files[i].filetype = USER)
           => LET E  == files[i].entries[j]
                  S1 == trash_entries(St, <<ref>>)
                  S2 == untrash_entries(
                            S1, <<EntryRef(TrashOf(files).filename,
                                           ref.key)>>)
                  A  == S2.files[IndexOfFilename(S2.files, ref.filename)]
              IN  /\ S1.raised = "" /\ S2.raised = ""
                  /\ \E k \in DOMAIN A.entries : A.entries[k] = E
                  /\ TrashOf(S2.files).entries = TrashOf(files).entries
                  /\ HasRow(S2.data_store, ref.filename, ref.key)
                  /\ Len(S2.data_store) = Len(data_store)

\* C13 witness: the trash was written and is empty again, no file was ever
\* loaded as a transient one, and an open user file holds entries: an entry
\* was trashed, then restored into its open file.
C13_Witness ==
    /\ BIBED_SYSTEM_TRASH_NAME \in events
    /\ TrashOf(files).entries = <<>>
    /\ disk[BIBED_SYSTEM_TRASH_NAME] = <<>>
    /\ num_system = Len(SystemFiles)
    /\ \E i \in DOMAIN files :
          /\ files[i].filetype = USER
          /\ files[i].entries # <<>>
          /\ disk[files[i].filename] = Serialize(files[i].entries)
          /\ files[i].filename \in events

\* Number of write() calls on a filename in a list of calls.
Writes(written, f) == Cardinality({n \in DOMAIN written : written[n] = f})

\* C14: trash_entries(entries) performs every mark-and-move before any
\* write, then calls write() exactly once on each distinct database touched
\* (each origin database and the trash database) and on no other: every
\* file written holds the entries its database has when the call returns.
\* Checked on the result R of the call for every batch of rows of every
\* reachable state.
C14_OneWritePerTouchedDatabase ==
    \A batch \in Batches(data_store) :
       LET refs == Refs(data_store, batch)
           R    == trash_entries(St, refs)
           touched == {TrashOf(files).filename}
                         \cup {refs[n].filename : n \in DOMAIN refs}
       IN  (Resolved(St, refs) /\ R.raised = "")
           => /\ \A f \in Paths :
                    Writes(R.written, f) = IF f \in touched THEN 1 ELSE 0
              /\ \A f \in touched :
                    R.disk[f] = Serialize(
                        R.files[IndexOfFilename(R.files, f)].entries)

\* C14 witness: two entries trashed from the same user file are in the trash
\* and both files are written.
C14_Witness ==
    \E i \in DOMAIN files :
       /\ files[i].filetype = USER
       /\ Len(TrashOf(files).entries) = 2
       /\ \A j \in DOMAIN TrashOf(files).entries :
             TrashOf(files).entries[j].trashedFrom = files[i].filename
       /\ disk[BIBED_SYSTEM_TRASH_NAME] = Serialize(TrashOf(files).entries)
       /\ disk[files[i].filename] = Serialize(files[i].entries)
       /\ files[i].entries = <<>>

\* The origin of the trashed entry a reference stands for.
OriginOf(S, ref) ==
    trashed_informations(TrashOf(S.files).entries[RefEntry(S, ref)])

\* The batches of rows of the trash.
TrashBatches(rows) ==
    {b \in Batches(rows) :
        \A n \in DOMAIN b :
           rows[b[n] + 1].filename = BIBED_SYSTEM_TRASH_NAME}

C16_MissingOriginKeepsTrashedEntry ==
    [][ \A batch \in Batches(data_store) :
          LET refs    == Refs(data_store, batch)
              missing == {n \in DOMAIN refs :
                            /\ ~has(files, OriginOf(St, refs[n]))
                            /\ ~exists(disk, OriginOf(St, refs[n]))}
          IN  (UntrashEntries(batch) /\ missing # {})
              => \A n \in missing :
                    \E j \in DOMAIN TrashOf(files').entries :
                       TrashOf(files').entries[j]
                          = TrashOf(files).entries[RefEntry(St, refs[n])]
      ]_vars

\* C17: trash_entries is all-or-nothing: if the write of any touched
\* database fails, the in-memory databases and the data store equal their
\* state before the call.
C17_FailedTrashChangesNothing ==
    [][ \A gid \in 0..(Len(data_store) - 1), failing \in Paths,
           first \in BOOLEAN, truncated \in BOOLEAN :
          TrashEntriesWriteRaises(
              <<gid>>,
              IF first THEN {}
              ELSE TrashWrites(St, Refs(data_store, <<gid>>)) \ {failing},
              failing, truncated)
          => UNCHANGED <<files, data_store>> ]_vars

\* C18: close(path, save_before=True) is all-or-nothing: if the save
\* fails, the database is still registered, its watch is still registered,
\* its rows are still present and num_user / num_system are unchanged.
C18_FailedCloseChangesNothing ==
    [][ \A p \in UserPaths, truncated \in BOOLEAN :
          CloseSaveRaises(p, truncated)
          => /\ has(files', p)
             /\ p \in wdd => p \in wdd'
             /\ data_store' = data_store
             /\ num_user' = num_user
             /\ num_system' = num_system ]_vars

\* The filenames of the open databases holding a key as the key or as one
\* of the aliases of an entry.
Holders(fs, key) ==
    {fs[i].filename : i \in
        {n \in DOMAIN fs :
            \E j \in DOMAIN fs[n].entries :
               \/ fs[n].entries[j].ID = key
               \/ key \in Range(fs[n].entries[j].ids)}}

\* C19: has_bib_key(k) returns the path of an open database holding an
\* entry whose key is k or whose ids aliases contain k, the second and
\* later aliases included, and returns None only if no open database holds
\* k as a key or as an alias.
C19_HasBibKeyFindsKeysAndAliases ==
    \A key \in MoreKeys :
       IF Holders(files, key) = {}
       THEN has_bib_key(files, key) = ""
       ELSE has_bib_key(files, key) \in Holders(files, key)

\* C20: get_entry_by_key(key, hint) returns the entry with that key
\* whenever an open database holds it (no hint, or a hint naming the
\* holding database) and fails with the key-not-found error exactly when
\* the key is absent (from every open database without a hint; from the
\* hinted database, or the hinted database not open, with a hint).  The
\* KeyError of the key index is counted as a key-not-found error here.
C20_GetEntryByKeyFindsHeldKeys ==
    \A key \in Keys, hint \in Paths \cup {""} :
       LET result == get_entry_by_key(files, key, hint)
           held   == IF hint = ""
                     THEN \E i \in DOMAIN files : HoldsKey(files[i], key)
                     ELSE /\ has(files, hint)
                          /\ HoldsKey(files[IndexOfFilename(files, hint)],
                                      key)
       IN  IF held
           THEN result.raised = "" /\ result.entry.ID = key
           ELSE result.raised \in {"BibKeyNotFoundError", "KeyError"}

----------------------------------------------------------------------------
(* Loading: tracked paths, duplicate keys, files the parser refuses.       *)

\* The filename is the one of a database of the store.
Tracked(fs, filename) == \E i \in DOMAIN fs : fs[i].filename = filename

\* What a failed operation must leave alone.
SameStore(R) ==
    /\ R.files = files
    /\ R.data_store = data_store
    /\ R.wdd = wdd
    /\ R.num_user = num_user
    /\ R.num_system = num_system

\* C21: load(path) of a path that is already tracked raises
\* AlreadyLoadedException and leaves the store, the rows, the watches and
\* the counters as they were; no two databases of the store have the same
\* filename.
C21_LoadOfTrackedPathFails ==
    /\ \A i, j \in DOMAIN files :
          files[i].filename = files[j].filename => i = j
    /\ \A p \in Paths, filetype \in {USER, TRANSIENT} :
          Tracked(files, p) =>
             LET R == load(St, p, filetype)
             IN  /\ R.raised = "AlreadyLoadedException"
                 /\ SameStore(R)

\* Both files of the user were loaded; loading either again is the case.
C21_Witness ==
    /\ \A p \in UserPaths : Tracked(files, p)
    /\ num_user = Cardinality(UserPaths)

\* The same key is held by two entries of the parsed file.
HasDuplicateKey(entries) ==
    \E i, j \in DOMAIN entries : i # j /\ entries[i].ID = entries[j].ID

\* C22: loading a file in which the same key parses twice raises
\* DuplicateKeyError; no database is registered and no row is added.
C22_DuplicateKeyFileIsRefused ==
    \A p \in UserPaths :
       (/\ ~Tracked(files, p)
        /\ exists(disk, p)
        /\ disk[p] # MalformedContent
        /\ HasDuplicateKey(ParseFile(disk[p]))) =>
          LET R == load(St, p, USER)
          IN  /\ R.raised = "DuplicateKeyError"
              /\ R.files = files
              /\ R.data_store = data_store

\* C23: when the parser raises during load(path), nothing has changed: no
\* row, no database, no watch, the counters and the file as they were.
C23_ParseFailureChangesNothing ==
    \A p \in UserPaths, filetype \in {USER, TRANSIENT} :
       (/\ ~Tracked(files, p)
        /\ exists(disk, p)
        /\ disk[p] = MalformedContent) =>
          LET R == load(St, p, filetype)
          IN  /\ R.raised = "ParseError"
              /\ SameStore(R)
              /\ R.disk = disk
              /\ R.events = events

\* A closed file of the user holds what the parser refuses, next to an
\* open one whose rows are in the data store.
C23_Witness ==
    \E p, q \in UserPaths :
       /\ ~Tracked(files, p) /\ exists(disk, p) /\ disk[p] = MalformedContent
       /\ Tracked(files, q) /\ data_store # <<>>

----------------------------------------------------------------------------
(* Closing.                                                                *)

\* C24: close(filename, save_before=True) removes the watch of the file
\* before it writes: the file is not watched during the write, the write is
\* reported to nobody and the watch is gone after the close.
C24_ClosingSaveIsNotWatched ==
    \A p \in Paths :
       Tracked(files, p) =>
          LET R == close(St, p, TRUE)
          IN  R.raised = "" =>
                 /\ R.written = <<p>>
                 /\ R.disk[p] = Serialize(files[IndexOfFilename(files, p)].entries)
                 /\ p \notin R.wdd
                 /\ R.events = events

\* A file of the user was closed with a save that changed it, and no event
\* waits for the notifier.
C24_Witness ==
    /\ ~Tracked(files, "a.bib")
    /\ disk["a.bib"] = <<NewEntry("k1"), NewEntry("k2")>>
    /\ "a.bib" \notin wdd
    /\ events = {}

\* C25: after close of an open database that is not transient, the store
\* has no database of that filename, no row names the filename, and the
\* rows that remain are the other rows in their order, numbered from 0.
C25_CloseRemovesDatabaseAndRows ==
    \A p \in Paths, save_before \in BOOLEAN :
       (/\ Tracked(files, p)
        /\ files[IndexOfFilename(files, p)].filetype # TRANSIENT) =>
          LET R == close(St, p, save_before)
              Others(row) == row.filename # p
          IN  R.raised = "" =>
                 /\ ~Tracked(R.files, p)
                 /\ Len(R.files) = Len(files) - 1
                 /\ \A n \in DOMAIN R.data_store :
                       /\ R.data_store[n].filename # p
                       /\ R.data_store[n].gid = n - 1
                 /\ RowPairs(R.data_store)
                       = RowPairs(SelectSeq(data_store, Others))

\* One file of the user was written and closed while the other one is open
\* with its rows.
C25_Witness ==
    /\ ~Tracked(files, "a.bib")
    /\ disk["a.bib"] # <<NewEntry("k1")>>
    /\ Tracked(files, "b.bib")
    /\ \E n \in DOMAIN data_store : data_store[n].filename = "b.bib"

----------------------------------------------------------------------------
(* Transient databases.                                                    *)

----------------------------------------------------------------------------
(* Backup before save.                                                     *)

\* C27: whatever step of backup() fails, write() still writes the entries
\* of the database to its file and returns.
C27_BackupFailureNeverBlocksWrite ==
    \A p \in UserPaths, failure \in BackupFailures \ {""} :
       Tracked(files, p) =>
          LET i == IndexOfFilename(files, p)
              R == write_backup_before_save(St, i, failure)
          IN  /\ R.raised = ""
              /\ R.disk[p] = Serialize(files[i].entries)

----------------------------------------------------------------------------
(* Reloading.                                                              *)

\* The store a finished call leaves to the next call.
Returned(S) == [S EXCEPT !.written = <<>>, !.raised = ""]

\* C28: with no change of the file in between, a second reload(path) right
\* after a first one leaves the rows (order, global ids, filenames, keys)
\* as the first one left them.
C28_ReloadIsIdempotent ==
    \A p \in Paths :
       Tracked(files, p) =>
          LET R1 == reload(St, p)
              R2 == reload(Returned(R1), p)
          IN  /\ R2.data_store = R1.data_store
              /\ R1.raised = "" => R2.raised = "" /\ R2.files = R1.files

\* An open file has rows before those of another file and entries that were
\* not saved: its first reload changes the rows.
C28_Witness ==
    /\ \E n, m \in DOMAIN data_store :
          /\ n < m
          /\ data_store[n].filename = "a.bib"
          /\ data_store[m].filename = "b.bib"
    /\ Tracked(files, "a.bib")
    /\ exists(disk, "a.bib")
    /\ files[IndexOfFilename(files, "a.bib")].entries # disk["a.bib"]
    /\ reload(St, "a.bib").data_store # data_store

----------------------------------------------------------------------------
(* Fields and keywords of an entry.                                        *)

\* C29: no field of an entry ever holds the empty string.
C29_NoFieldIsEmpty ==
    \A name \in DOMAIN edited_entry.bib_dict :
       edited_entry.bib_dict[name] # EmptyString

\* The read-status tokens the keyword list holds.
ReadTokens(E) ==
    Cardinality({n \in DOMAIN E.internal_keywords :
                    ListHas(JABREF_READ_KEYWORDS, E.internal_keywords[n])})

\* unread -> skimmed -> read -> unread
NextReadStatus(status) ==
    IF status = "" THEN "skimmed" ELSE IF status = "skimmed" THEN "read" ELSE ""

\* C30: cycle_read_status moves the read status one step along unread,
\* skimmed, read, unread; three calls give back the read status the entry
\* had; the keywords hold at most one read-status token.
C30_ReadStatusCycles ==
    LET R1 == cycle_read_status(edited_entry)
        R2 == cycle_read_status(Left(R1))
        R3 == cycle_read_status(Left(R2))
    IN  /\ ReadTokens(edited_entry) <= 1
        /\ R1.raised = ""
        /\ read_status(R1) = NextReadStatus(read_status(edited_entry))
        /\ ReadTokens(R1) <= 1
        /\ read_status(R3) = read_status(edited_entry)

\* The keywords of the user: what get_field('keywords') shows, in order.
UserKeywords(E) == internal_split_tokens(keywords(E))

\* The keywords of the user the 'keywords' field of bib_dict holds: what is
\* written to the file, without the JabRef keywords.
FieldKeywords(E) ==
    WithoutTokens(
        internal_split_tokens(DictGet(E.bib_dict, "keywords", EmptyString)),
        JABREF_QUALITY_KEYWORDS \o JABREF_READ_KEYWORDS)

\* C31: toggle_quality and cycle_read_status leave the keywords of the user
\* and their order as they were; toggle_quality leaves the read status and
\* cycle_read_status the quality marker as they were; whatever calls of
\* set_field('keywords', ...) came before.
C31_MarkersLeaveUserKeywords ==
    LET T == toggle_quality(edited_entry)
        C == cycle_read_status(edited_entry)
    IN  /\ T.raised = ""
        /\ C.raised = ""
        /\ UserKeywords(T) = UserKeywords(edited_entry)
        /\ UserKeywords(C) = UserKeywords(edited_entry)
        /\ FieldKeywords(T) = FieldKeywords(edited_entry)
        /\ FieldKeywords(C) = FieldKeywords(edited_entry)
        /\ read_status(T) = read_status(edited_entry)
        /\ quality(C) = quality(edited_entry)

----------------------------------------------------------------------------
(* The trash mark of an entry.                                             *)

\* The value the verbb dictionary holds for a key ("" when it has none).
VerbbValue(E, key) ==
    IF VerbbHas(E, key)
    THEN LET n == CHOOSE n \in DOMAIN E.internal_verbb :
                     E.internal_verbb[n][1] = key
         IN  E.internal_verbb[n][2]
    ELSE ""

\* The lines of the verbb field of bib_dict.
VerbbField(E) ==
    internal_split_tokens(DictGet(E.bib_dict, "verbb", EmptyString))

\* C32: set_trashed(True) of a trashed entry and set_trashed(False) of an
\* entry that is not trashed raise and leave the verbb dictionary and the
\* fields as they were; otherwise set_trashed(True) records the filename of
\* the database of the entry and the date, and set_trashed(False) removes
\* both.
C32_SetTrashedPreconditions ==
    LET T == set_trashed_verbb(edited_entry, TRUE)
        F == set_trashed_verbb(edited_entry, FALSE)
    IN  IF VerbbHas(edited_entry, TRASHED_FROM)
        THEN /\ T.raised # ""
             /\ T.internal_verbb = edited_entry.internal_verbb
             /\ T.bib_dict = edited_entry.bib_dict
             /\ F.raised = ""
             /\ ~VerbbHas(F, TRASHED_FROM) /\ ~VerbbHas(F, TRASHED_DATE)
             /\ VerbbField(F) = <<>>
        ELSE /\ F.raised # ""
             /\ F.internal_verbb = edited_entry.internal_verbb
             /\ F.bib_dict = edited_entry.bib_dict
             /\ T.raised = ""
             /\ VerbbValue(T, TRASHED_FROM) = edited_entry.database
             /\ VerbbValue(T, TRASHED_DATE) = Today
             /\ VerbbField(T)
                   = <<VerbbLine(TRASHED_FROM, edited_entry.database),
                       VerbbLine(TRASHED_DATE, Today)>>

\* An entry of a user file was trashed by set_trashed(True) after its
\* keywords were edited.
C32_Witness ==
    /\ edited_entry.database = "a.bib"
    /\ VerbbValue(edited_entry, TRASHED_FROM) = "a.bib"
    /\ "keywords" \in DOMAIN edited_entry.bib_dict

----------------------------------------------------------------------------
(* Copies of an entry.                                                     *)

\* C33: copy() returns an entry with no database whose key is None and
\* whose other fields are those of the original.
C33_CopyHasNoDatabaseAndNoKey ==
    LET c == copy(edited_entry)
    IN  /\ c.raised = ""
        /\ c.database = NoDatabase
        /\ entry_key(c) = None
        /\ DictDel(c.bib_dict, "ID") = DictDel(edited_entry.bib_dict, "ID")

----------------------------------------------------------------------------
(* Unique keys.                                                            *)

\* The key of try n of fix_field_key.
Candidate(entry, seed, n) == generate_new_key(entry, n, uuid4_hex(seed, n))

\* C34: fix_field_key returns within as many tries as the store holds keys
\* plus one; the key it returns is unknown to has_bib_key; it is the key of
\* the first try, in the order no suffix, 1, 2, 3, ..., whose key is
\* unknown, and but for the keys made of random digits it ends with the
\* suffix of that try.
C34_FirstFreeKeyInSuffixOrder ==
    \A entry \in KeyedEntries, seed \in UuidSeeds :
        LET fixed == fix_field_key(entry, files, seed, 0)
            n     == fixed.counter
        IN  /\ fixed.returned
            /\ has_bib_key(files, fixed.new_key) = ""
            /\ fixed.new_key = Candidate(entry, seed, n)
            /\ \A m \in 0..(n - 1) :
                  has_bib_key(files, Candidate(entry, seed, m)) # ""
            /\ entry.author # "" /\ entry.title # ""
                  => fixed.new_key = "knuth-taocp" \o FormatSuffix(n)

\* Both user files hold a generated key of the book, so that the next key
\* of the book is the one of suffix 2.
C34_Witness ==
    /\ has_bib_key(files, "knuth-taocp") # ""
    /\ has_bib_key(files, "knuth-taocp-01") # ""
    /\ fix_field_key(CHOOSE entry \in KeyedEntries : entry.author # ""
                                                      /\ entry.title # "",
                     files, "0a1b2c3", 0).new_key = "knuth-taocp-02"

----------------------------------------------------------------------------
(* Reload.                                                                 *)

\* C35: reload of an open database ends with the database open: when the
\* file cannot be opened again, the databases and the rows are those of
\* before.
C35_ReloadKeepsDatabaseOpen ==
    \A p \in UserPaths :
        has(files, p) =>
            LET R == reload(St, p)
            IN  /\ has(R.files, p)
                /\ R.raised # "" => /\ R.files = files
                                    /\ R.data_store = data_store

\* The filetype of the database of a filename in the store.
FiletypeOf(fs, filename) == fs[IndexOfFilename(fs, filename)].filetype

\* C36: a reload that returns leaves the filetype of the database as it
\* was, and the store that had a trash database still has one.
C36_ReloadKeepsFiletype ==
    \A p \in Paths :
        has(files, p) =>
            LET R == reload(St, p)
            IN  R.raised = "" =>
                    /\ FiletypeOf(R.files, p) = FiletypeOf(files, p)
                    /\ IndexOfFiletype(files, TRASH) # 0
                          => IndexOfFiletype(R.files, TRASH) # 0

----------------------------------------------------------------------------
(* Watches and counters.                                                   *)

\* The filenames of the databases of the store that are not transient.
WatchedFilenames(fs) ==
    {fs[i].filename : i \in {j \in DOMAIN fs : fs[j].filetype # TRANSIENT}}

CountOfFiletypes(fs, filetypes) ==
    Cardinality({i \in DOMAIN fs : fs[i].filetype \in filetypes})

\* C38: num_user is the number of the open user databases and num_system
\* the number of the open trash, queue and imported databases.
C38_CountersMatchOpenDatabases ==
    MainIdle =>
        /\ num_user = CountOfFiletypes(files, {USER})
        /\ num_system = CountOfFiletypes(files, {TRASH, QUEUE, IMPORTED})

----------------------------------------------------------------------------
(* The key index of a database.                                            *)

\* C39: the key index has one mapping per entry of the list, the mapping of
\* a key gives a position of the list whose entry has that key, and the
\* rename of the entry at any position, 0 included, returns with the entry
\* at the same position under its new key.
C39_KeyIndexMatchesEntries ==
    LET D == edited_database IN
    /\ Cardinality(DOMAIN D.entries) = Len(D.bibdb_entries)
    /\ \A k \in DOMAIN D.entries :
          /\ D.entries[k] + 1 \in DOMAIN D.bibdb_entries
          /\ D.bibdb_entries[D.entries[k] + 1].ID = k
    /\ \A index \in 0..(Len(D.bibdb_entries) - 1), key \in DatabaseKeys :
          ~DatabaseAnswersToKey(D, key) =>
              LET R == rename_entry(D, index, key)
              IN  /\ R.raised = ""
                  /\ R.bibdb_entries[index + 1].ID = key
                  /\ R.entries[key] = index

----------------------------------------------------------------------------
(* close_all.                                                              *)

\* The number of times a filename is in a sequence of filenames.
TimesWritten(written, filename) ==
    Cardinality({n \in DOMAIN written : written[n] = filename})

\* C40: close_all(save_before=True) returns with no user, trash, queue or
\* imported database left in the store, each of them written once.
C40_CloseAllClosesEveryDatabase ==
    LET R == close_all(St, TRUE)
        Closed(filetype) == filetype \in {USER, TRASH, QUEUE, IMPORTED}
    IN  /\ R.raised = ""
        /\ \A i \in DOMAIN R.files : ~Closed(R.files[i].filetype)
        /\ \A i \in DOMAIN files :
              Closed(files[i].filetype)
                  => TimesWritten(R.written, files[i].filename) = 1

====
